---- MODULE Spec2Model ----
(***************************************************************************)
(* State-machine model of the Ergodeon web client: the session store and   *)
(* event-channel binding of web/src/lib/socket.js and the components that  *)
(* call it (App.svelte, Input.svelte, OnboardingModal.svelte,              *)
(* ConfirmDialog.svelte).                                                  *)
(*                                                                         *)
(* JavaScript values.  A value that may be undefined/null is an option:    *)
(* Null (the empty tuple) or Some(v) (a one-element tuple).  The model     *)
(* does not tell undefined from null: the code only ever tests such values *)
(* for truthiness.  The `ts: Date.now()` field of messages and log entries *)
(* is read by no code of the repository and is left out.                   *)
(***************************************************************************)
EXTENDS Integers, Sequences, FiniteSets, TLC

VARIABLES
  socket,          \* _socket # null
  instances,       \* number of connections created by io(), each with its
                   \* own registration of the inbound handlers
  msgId,           \* _msgId
  connected,       \* store `connected`
  messages,        \* store `messages`
  logs,            \* store `logs`
  status,          \* store `status`
  pendingConfirm,  \* store `pendingConfirm`
  pipelineDone,    \* store `pipelineDone`
  activeWorkflow,  \* store `activeWorkflow`
  activeProject,   \* store `activeProject`
  emitted,         \* outbound events handed to _socket.emit, in order
  clearMark,       \* how many events had been emitted when clearMessages()
                   \* last ran, 0 if it never did
  inputText,       \* Input.svelte `text`
  suggestions,     \* Input.svelte `suggestions`, as the list of their cmd
  showOnboarding,  \* App.svelte `showOnboarding`, bound to OnboardingModal `show`
  step,            \* OnboardingModal.svelte `step`
  selectedMode,    \* OnboardingModal.svelte `selectedMode`
  pathInput,       \* OnboardingModal.svelte `pathInput`
  taskInput,       \* OnboardingModal.svelte `taskInput`
  timers,          \* callbacks of the pending setTimeout(() => sendInput(..), 300)
  prev,            \* the store as it was before the operation handled last
  last,            \* the operation handled last: its name, its argument,
                   \* whether it threw, and the value of `connected` at each
                   \* sendInput call it made
  nsteps           \* number of operations handled so far

storeVars == <<socket, instances, msgId, connected, messages, logs, status, pendingConfirm,
               pipelineDone, activeWorkflow, activeProject, emitted,
               clearMark>>
uiVars == <<inputText, suggestions, showOnboarding, step, selectedMode,
            pathInput, taskInput, timers>>
vars == <<socket, instances, msgId, connected, messages, logs, status, pendingConfirm,
          pipelineDone, activeWorkflow, activeProject, emitted, clearMark,
          inputText,
          suggestions, showOnboarding, step, selectedMode, pathInput, taskInput,
          timers, prev, last, nsteps>>

(***************************************************************************)
(* Bounds and program constants                                            *)
(***************************************************************************)
MaxSteps == 4          \* operations per behaviour of Spec
MaxUiSteps == 8        \* operations per behaviour of SpecUi
MaxFeed == 503         \* events per behaviour of SpecLog and SpecLogCap
ToolWindow == 2        \* SpecLogCap delivers tool events once the log is
                       \* within this many entries of LOG_CAP

LOG_CAP == 500         \* socket.js:85
TRUNC == 120           \* socket.js:92, 100

\* The user-visible texts are Russian in the source; the model keeps an ASCII
\* rendering of each.
TXT_CONNECTED == "connection established"     \* socket.js:53
TXT_DISCONNECTED == "connection lost"         \* socket.js:59
TXT_ERROR_PREFIX == "Error: "                 \* socket.js:124
TXT_UNKNOWN_ERROR == "unknown error"          \* socket.js:123
ARROW_CALL == "-> "                           \* socket.js:92, a right arrow
ARROW_RESULT == "<- "                         \* socket.js:100, a left arrow

(***************************************************************************)
(* JavaScript helpers                                                      *)
(***************************************************************************)
Null == <<>>
Some(v) == <<v>>

\* truthiness of an optional string / number
TruthyStr(o) == o # Null /\ o[1] # ""
TruthyNum(o) == o # Null /\ o[1] # 0

\* `o || d`
OrStr(o, d) == IF TruthyStr(o) THEN o[1] ELSE d
OrNum(o, d) == IF TruthyNum(o) THEN o[1] ELSE d

\* s.slice(0, n)
SliceHead(s, n) == IF Len(s) > n THEN SubSeq(s, 1, n) ELSE s

\* list.slice(-n)
SliceTail(list, n) ==
  IF Len(list) > n THEN SubSeq(list, Len(list) - n + 1, Len(list)) ELSE list

(***************************************************************************)
(* The store as one record, so that handlers compose as functions           *)
(***************************************************************************)
Store ==
  [socket |-> socket, instances |-> instances, msgId |-> msgId,
   connected |-> connected,
   messages |-> messages, logs |-> logs, status |-> status,
   pendingConfirm |-> pendingConfirm, pipelineDone |-> pipelineDone,
   activeWorkflow |-> activeWorkflow, activeProject |-> activeProject,
   emitted |-> emitted, clearMark |-> clearMark, calls |-> <<>>]

InitStore ==
  [socket |-> FALSE, instances |-> 0, msgId |-> 0, connected |-> FALSE,
   messages |-> <<>>, logs |-> <<>>, status |-> Null,
   pendingConfirm |-> Null, pipelineDone |-> Null,
   activeWorkflow |-> Null, activeProject |-> "",
   emitted |-> <<>>, clearMark |-> 0, calls |-> <<>>]

\* a variant of addMessage that numbers a message by its position in the list
addMessage_positionId(st, type, text, payload) ==
  [st EXCEPT !.msgId = Len(st.messages) + 1,
             !.messages = Append(st.messages,
                 [id |-> Len(st.messages) + 1, type |-> type, text |-> text,
                  payload |-> payload])]

\* nextId + addMessage
addMessage(st, type, text, payload) ==
  [st EXCEPT !.msgId = st.msgId + 1,
             !.messages = Append(st.messages,
                 [id |-> st.msgId + 1, type |-> type, text |-> text,
                  payload |-> payload])]

\* _socket.emit(evt, data)
emit(st, evt, data) ==
  [st EXCEPT !.emitted = Append(st.emitted, [evt |-> evt, data |-> data])]

\* a variant of connect() without the `if (_socket) return _socket` line
connect_alwaysCreates(st) ==
  [st EXCEPT !.socket = TRUE, !.instances = @ + 1]

\* connect(): creates the socket and registers the handlers on first use
connect(st) ==
  IF st.socket THEN st ELSE [st EXCEPT !.socket = TRUE, !.instances = @ + 1]

\* a variant of the connect handler that announces the connection only once
OnConnect_announcesOnce(st) ==
  IF st.msgId > 0 THEN [st EXCEPT !.connected = TRUE]
  ELSE addMessage([st EXCEPT !.connected = TRUE], "system", TXT_CONNECTED, Null)

\* _socket.on('connect')
OnConnect(st) ==
  addMessage([st EXCEPT !.connected = TRUE], "system", TXT_CONNECTED, Null)

\* a variant of the disconnect handler that leaves activeWorkflow alone
OnDisconnect_keepsWorkflow(st) ==
  addMessage([st EXCEPT !.connected = FALSE], "system", TXT_DISCONNECTED, Null)

\* _socket.on('disconnect')
OnDisconnect(st) ==
  addMessage([st EXCEPT !.connected = FALSE, !.activeWorkflow = Null],
             "system", TXT_DISCONNECTED, Null)

(***************************************************************************)
(* Inbound event payloads.  `data` is Null when the event carries no        *)
(* argument; a field is Null when the payload lacks it.                     *)
(***************************************************************************)
Payload(workflow, project, st) ==
  Some([workflow |-> workflow, project |-> project, status |-> st])

MessageData(text, type, payload) ==
  Some([text |-> text, type |-> type, payload |-> payload])

LogData(message, msg, level) ==
  Some([message |-> message, msg |-> msg, level |-> level])

\* a tool argument or result: a string, or an object given by its
\* <<key, value>> pairs in insertion order
StrValue(s) == Some([t |-> "string", s |-> s, o |-> <<>>])
ObjValue(o) == Some([t |-> "object", s |-> "", o |-> o])

ToolCallData(tool, args) == Some([tool |-> tool, args |-> args])
ToolResultData(tool, result) == Some([tool |-> tool, result |-> result])

StatusData(phase, stepNo, total, description, st) ==
  Some([phase |-> phase, step |-> stepNo, total |-> total,
        description |-> description, status |-> st])

ErrorData(error, msg) == Some([error |-> error, msg |-> msg])

\* `${x}` for an optional string
Template(o) == IF o = Null THEN "undefined" ELSE o[1]

\* JSON.stringify of an object with string values
RECURSIVE JsonMembers(_)
JsonMembers(o) ==
  IF o = <<>> THEN ""
  ELSE "\"" \o o[1][1] \o "\":\"" \o o[1][2] \o "\""
       \o (IF Len(o) > 1 THEN "," ELSE "") \o JsonMembers(Tail(o))

JsonStringify(v) == "{" \o JsonMembers(v.o) \o "}"

\* String(x)
ToStr(x) ==
  IF x = Null THEN "undefined"
  ELSE IF x[1].t = "string" THEN x[1].s ELSE "[object Object]"

(***************************************************************************)
(* Inbound handlers registered by connect()                                *)
(***************************************************************************)
\* _socket.on(EVT.MESSAGE): data.text on an absent data is a TypeError
ThrowsOnMessage(data) == data = Null

\* a variant of the test for a finished pipeline without the `!== 'chat'` part
SignalsDone_ignoresWorkflow(payload) ==
  payload # Null /\ payload[1].status = Some("completed")

\* the test `payload && payload.status === 'completed' && payload.workflow !== 'chat'`
SignalsDone(payload) ==
  /\ payload # Null
  /\ payload[1].status = Some("completed")
  /\ payload[1].workflow # Some("chat")

\* a variant in which a tagged message without a project keeps the project
\* shown
ProjectAfter_keepsShown(shown, payload) ==
  IF payload[1].workflow[1] # "chat" THEN OrStr(payload[1].project, shown)
  ELSE shown

\* activeProject after a message whose payload has a workflow tag:
\* if (payload.workflow !== 'chat') activeProject.set(payload.project || '')
ProjectAfter(shown, payload) ==
  IF payload[1].workflow[1] # "chat" THEN OrStr(payload[1].project, "")
  ELSE shown

\* a variant of the message handler without the `!== 'chat'` test on the project
OnMessage_chatSetsProject(st, data) ==
  IF ThrowsOnMessage(data) THEN st
  ELSE
    LET text == OrStr(data[1].text, "")
        type == OrStr(data[1].type, "assistant")
        payload == data[1].payload
        tagged == payload # Null /\ TruthyStr(payload[1].workflow)
        st1 == IF tagged
               THEN [st EXCEPT
                       !.activeWorkflow = payload[1].workflow,
                       !.activeProject = OrStr(payload[1].project, "")]
               ELSE st
        st2 == IF SignalsDone(payload)
               THEN [st1 EXCEPT !.pipelineDone = Some([status |-> "completed"])]
               ELSE st1
    IN addMessage(st2, type, text, payload)

OnMessage(st, data) ==
  IF ThrowsOnMessage(data) THEN st
  ELSE
    LET text == OrStr(data[1].text, "")
        type == OrStr(data[1].type, "assistant")
        payload == data[1].payload
        tagged == payload # Null /\ TruthyStr(payload[1].workflow)
        st1 == IF tagged
               THEN [st EXCEPT
                       !.activeWorkflow = payload[1].workflow,
                       !.activeProject = ProjectAfter(@, payload)]
               ELSE st
        st2 == IF SignalsDone(payload)
               THEN [st1 EXCEPT !.pipelineDone = Some([status |-> "completed"])]
               ELSE st1
    IN addMessage(st2, type, text, payload)

\* _socket.on(EVT.LOG)
ThrowsOnLog(data) == data = Null

\* a variant of the log handler that cuts with slice(0, 500)
OnLog_keepsOldest(st, data) ==
  IF ThrowsOnLog(data) THEN st
  ELSE
    LET msg == OrStr(data[1].message, OrStr(data[1].msg, ""))
        level == OrStr(data[1].level, "INFO")
        next == Append(st.logs, [level |-> level, msg |-> msg])
    IN [st EXCEPT !.logs = IF Len(next) > LOG_CAP
                           THEN SubSeq(next, 1, LOG_CAP) ELSE next]

OnLog(st, data) ==
  IF ThrowsOnLog(data) THEN st
  ELSE
    LET msg == OrStr(data[1].message, OrStr(data[1].msg, ""))
        level == OrStr(data[1].level, "INFO")
        next == Append(st.logs, [level |-> level, msg |-> msg])
    IN [st EXCEPT !.logs = IF Len(next) > LOG_CAP
                           THEN SliceTail(next, LOG_CAP) ELSE next]

\* _socket.on(EVT.TOOL_CALL): destructuring an absent data is a TypeError, and
\* JSON.stringify(undefined) is undefined, whose .slice is a TypeError
ThrowsOnToolCall(data) == data = Null \/ data[1].args = Null

OnToolCall(st, data) ==
  IF ThrowsOnToolCall(data) THEN st
  ELSE
    LET args == data[1].args[1]
        shown == IF args.t = "string" THEN args.s
                 ELSE SliceHead(JsonStringify(args), TRUNC)
    IN [st EXCEPT !.logs = Append(@,
          [level |-> "TOOL",
           msg |-> ARROW_CALL \o Template(data[1].tool) \o "  " \o shown])]

\* _socket.on(EVT.TOOL_RESULT)
ThrowsOnToolResult(data) == data = Null

OnToolResult(st, data) ==
  IF ThrowsOnToolResult(data) THEN st
  ELSE
    [st EXCEPT !.logs = Append(@,
       [level |-> "TOOL",
        msg |-> ARROW_RESULT \o Template(data[1].tool) \o "  "
                \o SliceHead(ToStr(data[1].result), TRUNC)])]

\* _socket.on(EVT.STATUS)
ThrowsOnStatus(data) == data = Null

\* a variant of the status handler that merges the event into the snapshot
\* shown, keeping the earlier value of a field the event lacks
OnStatus_merges(st, data) ==
  IF ThrowsOnStatus(data) THEN st
  ELSE
    LET old == IF st.status = Null
               THEN [phase |-> Null, step |-> 0, total |-> 0,
                     description |-> "", status |-> Null]
               ELSE st.status[1]
    IN [st EXCEPT !.status = Some(
         [phase |-> IF TruthyStr(data[1].phase) THEN data[1].phase ELSE old.phase,
          step |-> OrNum(data[1].step, old.step),
          total |-> OrNum(data[1].total, old.total),
          description |-> OrStr(data[1].description, old.description),
          status |-> IF TruthyStr(data[1].status) THEN data[1].status
                     ELSE old.status])]

OnStatus(st, data) ==
  IF ThrowsOnStatus(data) THEN st
  ELSE
    [st EXCEPT !.status = Some(
       [phase |-> IF TruthyStr(data[1].phase) THEN data[1].phase ELSE Null,
        step |-> OrNum(data[1].step, 0),
        total |-> OrNum(data[1].total, 0),
        description |-> OrStr(data[1].description, ""),
        status |-> IF TruthyStr(data[1].status) THEN data[1].status ELSE Null])]

\* a variant of the confirm handler that keeps an unresolved confirmation
OnConfirm_keepsFirst(st, data) ==
  IF st.pendingConfirm # Null THEN st ELSE [st EXCEPT !.pendingConfirm = data]

\* _socket.on(EVT.CONFIRM)
OnConfirm(st, data) == [st EXCEPT !.pendingConfirm = data]

\* a variant of the done handler that leaves the status snapshot in place
OnDone_keepsStatus(st, data) == [st EXCEPT !.pipelineDone = data]

\* _socket.on(EVT.DONE)
OnDone(st, data) == [st EXCEPT !.pipelineDone = data, !.status = Null]

\* _socket.on(EVT.ERROR)
ThrowsOnError(data) == data = Null

\* a variant of the error handler that shows only the latest error message
OnError_replacesError(st, data) ==
  IF ThrowsOnError(data) THEN st
  ELSE
    LET msg == OrStr(data[1].error, OrStr(data[1].msg, TXT_UNKNOWN_ERROR))
        IsNoError(m) == m.type # "error"
    IN addMessage([st EXCEPT !.messages = SelectSeq(@, IsNoError)],
                  "error", TXT_ERROR_PREFIX \o msg, Null)

OnError(st, data) ==
  IF ThrowsOnError(data) THEN st
  ELSE
    LET msg == OrStr(data[1].error, OrStr(data[1].msg, TXT_UNKNOWN_ERROR))
    IN addMessage(st, "error", TXT_ERROR_PREFIX \o msg, Null)

\* a variant of the dispatch that reconciles late events: a status event that
\* arrives once the pipeline is done is dropped
Handle_dropsLateStatus(evt, st, data) ==
  CASE evt = "connect" -> OnConnect(st)
    [] evt = "disconnect" -> OnDisconnect(st)
    [] evt = "message" -> OnMessage(st, data)
    [] evt = "log" -> OnLog(st, data)
    [] evt = "tool_call" -> OnToolCall(st, data)
    [] evt = "tool_result" -> OnToolResult(st, data)
    [] evt = "status" -> IF st.pipelineDone # Null THEN st ELSE OnStatus(st, data)
    [] evt = "confirm" -> OnConfirm(st, data)
    [] evt = "done" -> OnDone(st, data)
    [] evt = "error" -> OnError(st, data)

\* the handler that connect() registers for an inbound event
Handle(evt, st, data) ==
  CASE evt = "connect" -> OnConnect(st)
    [] evt = "disconnect" -> OnDisconnect(st)
    [] evt = "message" -> OnMessage(st, data)
    [] evt = "log" -> OnLog(st, data)
    [] evt = "tool_call" -> OnToolCall(st, data)
    [] evt = "tool_result" -> OnToolResult(st, data)
    [] evt = "status" -> OnStatus(st, data)
    [] evt = "confirm" -> OnConfirm(st, data)
    [] evt = "done" -> OnDone(st, data)
    [] evt = "error" -> OnError(st, data)

\* a variant of the delivery in which a lost connection also drops the
\* confirmation that was pending on it
Deliver_disconnectDropsConfirm(evt, st, data) ==
  LET RECURSIVE Run(_, _)
      Run(s, n) == IF n = 0 THEN s ELSE Run(Handle(evt, s, data), n - 1)
      after == Run(st, st.instances)
  IN IF evt = "disconnect" THEN [after EXCEPT !.pendingConfirm = Null] ELSE after

\* an inbound event reaches the handler of every connection created
Deliver(evt, st, data) ==
  LET RECURSIVE Run(_, _)
      Run(s, n) == IF n = 0 THEN s ELSE Run(Handle(evt, s, data), n - 1)
  IN Run(st, st.instances)

(***************************************************************************)
(* Exported operations                                                     *)
(***************************************************************************)
\* a variant of sendInput without the local echo of the text
sendInput_noEcho(st, text) ==
  LET called == [st EXCEPT !.calls = Append(@, st.connected)]
  IN IF ~st.socket THEN called
     ELSE emit(called, "agent:input", [text |-> text])

\* sendInput(text); `calls` records the connection flag at each invocation
sendInput(st, text) ==
  LET called == [st EXCEPT !.calls = Append(@, st.connected)]
  IN IF ~st.socket THEN called
     ELSE emit(addMessage(called, "user", text, Null),
               "agent:input", [text |-> text])

\* a variant of sendConfirm that answers yes whenever a record is passed
sendConfirm_yesForRecord(st, data, confirmed) ==
  IF ~st.socket THEN st
  ELSE [emit(st, "agent:confirm_response",
             [response |-> IF confirmed \/ data # Null THEN "yes" ELSE "no"])
          EXCEPT !.pendingConfirm = Null]

\* sendConfirm(data, confirmed)
sendConfirm(st, data, confirmed) ==
  IF ~st.socket THEN st
  ELSE [emit(st, "agent:confirm_response",
             [response |-> IF confirmed THEN "yes" ELSE "no"])
          EXCEPT !.pendingConfirm = Null]

\* { command, ...data }: the fields of data are written after `command`
Spread(command, data) ==
  IF data = Null THEN [command |-> command]
  ELSE [k \in {"command"} \cup DOMAIN data[1] |->
          IF k \in DOMAIN data[1] THEN data[1][k] ELSE command]

\* sendCommand(command, data)
sendCommand(st, command, data) ==
  IF ~st.socket THEN st
  ELSE emit(st, "agent:command", Spread(command, data))

\* a variant of clearMessages that also restarts the id counter
clearMessages_resetsCounter(st) ==
  [st EXCEPT !.messages = <<>>, !.pipelineDone = Null, !.msgId = 0,
             !.clearMark = Len(st.emitted)]

\* clearMessages(); `clearMark` notes where in the emitted events it ran
clearMessages(st) ==
  [st EXCEPT !.messages = <<>>, !.pipelineDone = Null,
             !.clearMark = Len(st.emitted)]

\* a variant of clearLogs that also clears pipelineDone
clearLogs_clearsDone(st) == [st EXCEPT !.logs = <<>>, !.pipelineDone = Null]

\* clearLogs()
clearLogs(st) == [st EXCEPT !.logs = <<>>]

(***************************************************************************)
(* Components: Input.svelte, OnboardingModal.svelte, App.svelte             *)
(***************************************************************************)
Ui ==
  [inputText |-> inputText, suggestions |-> suggestions,
   showOnboarding |-> showOnboarding, step |-> step,
   selectedMode |-> selectedMode, pathInput |-> pathInput,
   taskInput |-> taskInput, timers |-> timers]

InitUi ==
  [inputText |-> "", suggestions |-> <<>>, showOnboarding |-> FALSE,
   step |-> "mode", selectedMode |-> "", pathInput |-> "", taskInput |-> "",
   timers |-> <<>>]

\* String.prototype.trim, for texts whose only white space is the blank
RECURSIVE TrimStart(_)
TrimStart(s) ==
  IF Len(s) > 0 /\ SubSeq(s, 1, 1) = " " THEN TrimStart(SubSeq(s, 2, Len(s)))
  ELSE s

RECURSIVE TrimEnd(_)
TrimEnd(s) ==
  IF Len(s) > 0 /\ SubSeq(s, Len(s), Len(s)) = " "
  THEN TrimEnd(SubSeq(s, 1, Len(s) - 1))
  ELSE s

Trim(s) == TrimEnd(TrimStart(s))

\* String.prototype.toLowerCase, for texts of ASCII characters
UPPER == "ABCDEFGHIJKLMNOPQRSTUVWXYZ"
LOWER == "abcdefghijklmnopqrstuvwxyz"

LowerChar(c) ==
  IF \E i \in 1..Len(UPPER) : SubSeq(UPPER, i, i) = c
  THEN LET i == CHOOSE j \in 1..Len(UPPER) : SubSeq(UPPER, j, j) = c
       IN SubSeq(LOWER, i, i)
  ELSE c

RECURSIVE ToLowerCase(_)
ToLowerCase(s) ==
  IF s = "" THEN ""
  ELSE LowerChar(SubSeq(s, 1, 1)) \o ToLowerCase(SubSeq(s, 2, Len(s)))

\* String.prototype.startsWith
StartsWith(s, p) == Len(p) <= Len(s) /\ SubSeq(s, 1, Len(p)) = p

\* Input.svelte COMMANDS, as the list of their cmd
COMMANDS == <<"project", "resume", "analyze", "reset">>

\* a variant of onInput that also suggests the command typed in full
onInput_keepsExact(ui) ==
  LET val == ToLowerCase(Trim(ui.inputText))
      Matches(c) == StartsWith(c, val)
  IN IF StartsWith(val, "/") \/ Len(val) < 1 THEN [ui EXCEPT !.suggestions = <<>>]
     ELSE [ui EXCEPT !.suggestions = SelectSeq(COMMANDS, Matches)]

\* Input.svelte onInput(), run on every input event of the textarea
onInput(ui) ==
  LET val == ToLowerCase(Trim(ui.inputText))
      Matches(c) == StartsWith(c, val) /\ c # val
  IN IF StartsWith(val, "/") \/ Len(val) < 1 THEN [ui EXCEPT !.suggestions = <<>>]
     ELSE [ui EXCEPT !.suggestions = SelectSeq(COMMANDS, Matches)]

\* Input.svelte applySuggestion(cmd)
applySuggestion(ui, cmd) ==
  [ui EXCEPT !.inputText = cmd \o " ", !.suggestions = <<>>]

\* Input.svelte onKeydown, key Escape
onEscape(ui) == [ui EXCEPT !.suggestions = <<>>]

\* a variant of resetSession that clears the messages before it sends
resetSession_clearsFirst(st, ui) ==
  <<sendInput(clearMessages(st), "reset"), [ui EXCEPT !.showOnboarding = TRUE]>>

\* App.svelte resetSession()
resetSession(st, ui) ==
  <<clearMessages(sendInput(st, "reset")), [ui EXCEPT !.showOnboarding = TRUE]>>

\* Input.svelte submit()
InputSubmit(st, ui) ==
  LET val == Trim(ui.inputText)
  IN IF val = "" \/ ~st.connected THEN <<st, ui>>
     ELSE <<sendInput(st, val),
            [ui EXCEPT !.inputText = "", !.suggestions = <<>>]>>

\* OnboardingModal.svelte selectMode(m)
selectMode(ui, m) ==
  [ui EXCEPT !.selectedMode = m, !.step = "config",
             !.pathInput = IF m = "build" THEN "projects/" ELSE "",
             !.taskInput = ""]

\* OnboardingModal.svelte back()
back(ui) ==
  IF ui.step = "config" THEN [ui EXCEPT !.step = "mode", !.selectedMode = ""]
  ELSE ui

\* OnboardingModal.svelte close()
close(ui) ==
  [ui EXCEPT !.showOnboarding = FALSE, !.step = "mode", !.selectedMode = ""]

TXT_ANALYZE == "analyze the project"     \* OnboardingModal.svelte:43
TXT_RESEARCH == "research the project"   \* OnboardingModal.svelte:45

\* the callbacks handed to setTimeout.  () => sendInput(taskInput.trim())
\* reads the component's taskInput when it runs; `text` records what the task
\* was when submit() scheduled it.  The other two send a fixed text.
TaskCallback(text) == [reads |-> "taskInput", text |-> text]
TextCallback(text) == [reads |-> "nothing", text |-> text]

\* OnboardingModal.svelte submit()
ModalSubmit(st, ui) ==
  IF Trim(ui.pathInput) = "" THEN <<st, ui>>
  ELSE
    LET st1 == sendInput(st, "project " \o Trim(ui.pathInput))
        ui1 == IF Trim(ui.taskInput) # ""
               THEN [ui EXCEPT !.timers =
                       Append(@, TaskCallback(Trim(ui.taskInput)))]
               ELSE IF ui.selectedMode = "analyze"
               THEN [ui EXCEPT !.timers = Append(@, TextCallback(TXT_ANALYZE))]
               ELSE IF ui.selectedMode = "research"
               THEN [ui EXCEPT !.timers = Append(@, TextCallback(TXT_RESEARCH))]
               ELSE ui
    IN <<st1, close(ui1)>>

\* the submit button of the modal is disabled
ModalSubmitDisabled(ui) ==
  Trim(ui.pathInput) = "" \/ (ui.selectedMode = "build" /\ Trim(ui.taskInput) = "")

\* the callback of setTimeout(() => sendInput(text), 300)
TimerFire(st, ui) ==
  LET cb == Head(ui.timers)
      text == IF cb.reads = "taskInput" THEN Trim(ui.taskInput) ELSE cb.text
  IN <<sendInput(st, text), [ui EXCEPT !.timers = Tail(@)]>>

(***************************************************************************)
(* Inputs explored                                                         *)
(***************************************************************************)
MessageDatas ==
  {Null, MessageData(Null, Null, Null),
   MessageData(Some("hello"), Some("user"), Null)}
  \cup {MessageData(Some("hi"), Some("result"), Payload(w, p, s)) :
          w \in {Null, Some("chat"), Some("build")},
          p \in {Null, Some("projects/x")},
          s \in {Null, Some("completed"), Some("running")}}

LogDatas ==
  {Null, LogData(Null, Null, Null), LogData(Null, Some("alt"), Null),
   LogData(Some("m"), Some("alt"), Some("ERROR"))}

\* the text s written n times
RECURSIVE Repeat(_, _)
Repeat(s, n) == IF n = 0 THEN "" ELSE s \o Repeat(s, n - 1)

\* a text longer than the 120 characters kept of an argument or a result
LongText == Repeat("0123456789", 13)

ToolCallDatas ==
  {Null, ToolCallData(Some("read_file"), Null),
   ToolCallData(Some("read_file"), ObjValue(<< <<"path", "a.py">> >>)),
   ToolCallData(Some("write_file"), ObjValue(<< <<"content", LongText>> >>)),
   ToolCallData(Some("bash"), StrValue(LongText)),
   ToolCallData(Null, StrValue("ls"))}

ToolResultDatas ==
  {Null, ToolResultData(Some("read_file"), Null),
   ToolResultData(Some("read_file"), StrValue("ok")),
   ToolResultData(Some("bash"), StrValue(LongText))}

StatusDatas ==
  {Null, StatusData(Null, Null, Null, Null, Null),
   StatusData(Some("plan"), Some(1), Some(3), Some("draft"), Some("running")),
   StatusData(Some(""), Some(0), Some(2), Some(""), Null)}

ConfirmRecords ==
  {[type |-> "review", message |-> "approve the plan?"],
   [type |-> "tool", message |-> "run it?", tool |-> "bash", args |-> "rm -r build"]}

ConfirmDatas == {Null} \cup {Some(c) : c \in ConfirmRecords}

DoneDatas == {Null, Some([status |-> "failed", reason |-> "tests"])}

ErrorDatas == {Null, ErrorData(Null, Null), ErrorData(Some("boom"), Some("alt"))}

InputTexts == {"hello", "reset"}

CommandCalls ==
  {<<"resume", Null>>, <<"open", Some([path |-> "projects/x"])>>,
   <<"open", Some([command |-> "other"])>>}

(***************************************************************************)
(* Actions: one operation handled per step                                 *)
(***************************************************************************)
Apply(st) ==
  /\ socket' = st.socket
  /\ instances' = st.instances
  /\ msgId' = st.msgId
  /\ connected' = st.connected
  /\ messages' = st.messages
  /\ logs' = st.logs
  /\ status' = st.status
  /\ pendingConfirm' = st.pendingConfirm
  /\ pipelineDone' = st.pipelineDone
  /\ activeWorkflow' = st.activeWorkflow
  /\ activeProject' = st.activeProject
  /\ emitted' = st.emitted
  /\ clearMark' = st.clearMark

Record(op, arg, threw, st) ==
  /\ Apply(st)
  /\ UNCHANGED uiVars
  /\ prev' = Store
  /\ last' = [op |-> op, arg |-> arg, threw |-> threw, calls |-> st.calls]
  /\ nsteps' = nsteps + 1

Handled(op, arg, threw, st) == nsteps < MaxSteps /\ Record(op, arg, threw, st)

\* App.svelte onMount, the only caller of connect()
Connect == Handled("connect()", Null, FALSE, connect(Store))

\* inbound events reach a handler only once connect() has registered it
ConnectEvt ==
  socket /\ Handled("connect", Null, FALSE, Deliver("connect", Store, Null))

DisconnectEvt == socket /\ Handled("disconnect", Null, FALSE,
                    Deliver("disconnect", Store, Null))

MessageEvt ==
  /\ socket
  /\ \E d \in MessageDatas :
       Handled("message", d, ThrowsOnMessage(d),
            Deliver("message", Store, d))

LogEvt ==
  /\ socket
  /\ \E d \in LogDatas : Handled("log", d, ThrowsOnLog(d),
            Deliver("log", Store, d))

ToolCallEvt ==
  /\ socket
  /\ \E d \in ToolCallDatas :
       Handled("tool_call", d, ThrowsOnToolCall(d),
            Deliver("tool_call", Store, d))

ToolResultEvt ==
  /\ socket
  /\ \E d \in ToolResultDatas :
       Handled("tool_result", d, ThrowsOnToolResult(d),
            Deliver("tool_result", Store, d))

StatusEvt ==
  /\ socket
  /\ \E d \in StatusDatas :
       Handled("status", d, ThrowsOnStatus(d),
            Deliver("status", Store, d))

ConfirmEvt ==
  /\ socket
  /\ \E d \in ConfirmDatas : Handled("confirm", d, FALSE,
            Deliver("confirm", Store, d))

DoneEvt ==
  /\ socket
  /\ \E d \in DoneDatas : Handled("done", d, FALSE,
            Deliver("done", Store, d))

ErrorEvt ==
  /\ socket
  /\ \E d \in ErrorDatas : Handled("error", d, ThrowsOnError(d),
            Deliver("error", Store, d))

SendInput == \E t \in InputTexts : Handled("sendInput", t, FALSE, sendInput(Store, t))

SendConfirm ==
  \E d \in ConfirmDatas, c \in BOOLEAN :
    Handled("sendConfirm", <<d, c>>, FALSE, sendConfirm(Store, d, c))

SendCommand ==
  \E c \in CommandCalls :
    Handled("sendCommand", c, FALSE, sendCommand(Store, c[1], c[2]))

ClearMessages == Handled("clearMessages", Null, FALSE, clearMessages(Store))

ClearLogs == Handled("clearLogs", Null, FALSE, clearLogs(Store))

Init ==
  /\ socket = InitStore.socket
  /\ instances = InitStore.instances
  /\ msgId = InitStore.msgId
  /\ connected = InitStore.connected
  /\ messages = InitStore.messages
  /\ logs = InitStore.logs
  /\ status = InitStore.status
  /\ pendingConfirm = InitStore.pendingConfirm
  /\ pipelineDone = InitStore.pipelineDone
  /\ activeWorkflow = InitStore.activeWorkflow
  /\ activeProject = InitStore.activeProject
  /\ emitted = InitStore.emitted
  /\ clearMark = InitStore.clearMark
  /\ inputText = InitUi.inputText
  /\ suggestions = InitUi.suggestions
  /\ showOnboarding = InitUi.showOnboarding
  /\ step = InitUi.step
  /\ selectedMode = InitUi.selectedMode
  /\ pathInput = InitUi.pathInput
  /\ taskInput = InitUi.taskInput
  /\ timers = InitUi.timers
  /\ prev = InitStore
  /\ last = [op |-> "init", arg |-> Null, threw |-> FALSE, calls |-> <<>>]
  /\ nsteps = 0

Next ==
  \/ Connect
  \/ ConnectEvt
  \/ DisconnectEvt
  \/ MessageEvt
  \/ LogEvt
  \/ ToolCallEvt
  \/ ToolResultEvt
  \/ StatusEvt
  \/ ConfirmEvt
  \/ DoneEvt
  \/ ErrorEvt
  \/ SendInput
  \/ SendConfirm
  \/ SendCommand
  \/ ClearMessages
  \/ ClearLogs

Spec == Init /\ [][Next]_vars

(***************************************************************************)
(* SpecUi: the user's gestures on the mounted components, with the channel  *)
(* connecting and disconnecting underneath.                                 *)
(***************************************************************************)
ApplyUi(ui) ==
  /\ inputText' = ui.inputText
  /\ suggestions' = ui.suggestions
  /\ showOnboarding' = ui.showOnboarding
  /\ step' = ui.step
  /\ selectedMode' = ui.selectedMode
  /\ pathInput' = ui.pathInput
  /\ taskInput' = ui.taskInput
  /\ timers' = ui.timers

UiHandled(op, arg, r) ==
  /\ nsteps < MaxUiSteps
  /\ Apply(r[1])
  /\ ApplyUi(r[2])
  /\ prev' = Store
  /\ last' = [op |-> op, arg |-> arg, threw |-> FALSE, calls |-> r[1].calls]
  /\ nsteps' = nsteps + 1

Modes == {"chat", "analyze", "research", "build"}   \* modeLabels
InputDrafts == {"", " hello ", " RE ", "reset", "/re"}
PathDrafts == {"", "  ", " projects/x "}
TaskDrafts == {"", "fix the tests"}

\* App.svelte onMount; the components take gestures once mounted
UiMount == ~socket /\ UiHandled("connect()", Null, <<connect(Store), Ui>>)

UiConnectEvt ==
  socket /\ UiHandled("connect", Null, <<Deliver("connect", Store, Null), Ui>>)

UiDisconnectEvt ==
  socket /\ UiHandled("disconnect", Null, <<Deliver("disconnect", Store, Null), Ui>>)

\* typing in the textarea, which is disabled while not connected
UiTypeInput ==
  /\ socket /\ connected
  /\ \E v \in InputDrafts :
       UiHandled("Input.type", v,
                 <<Store, onInput([Ui EXCEPT !.inputText = v])>>)

\* a click on one of the suggestions shown
UiApplySuggestion ==
  /\ socket
  /\ \E i \in 1..Len(suggestions) :
       UiHandled("Input.applySuggestion", suggestions[i],
                 <<Store, applySuggestion(Ui, suggestions[i])>>)

\* Escape in the textarea
UiEscape ==
  /\ socket /\ connected
  /\ UiHandled("Input.escape", Null, <<Store, onEscape(Ui)>>)

\* Enter in the textarea or a click on the send button, both disabled while
\* not connected
UiInputSubmit ==
  /\ socket /\ connected
  /\ UiHandled("Input.submit", Null, InputSubmit(Store, Ui))

\* the "+ new" button of the header
UiClickNew ==
  /\ socket
  /\ UiHandled("App.new", Null, <<Store, [Ui EXCEPT !.showOnboarding = TRUE]>>)

UiSelectMode ==
  /\ socket /\ showOnboarding /\ step = "mode"
  /\ \E m \in Modes :
       UiHandled("Onboarding.selectMode", m, <<Store, selectMode(Ui, m)>>)

UiBack ==
  /\ socket /\ showOnboarding /\ step = "config"
  /\ UiHandled("Onboarding.back", Null, <<Store, back(Ui)>>)

UiTypePath ==
  /\ socket /\ showOnboarding /\ step = "config"
  /\ \E v \in PathDrafts :
       UiHandled("Onboarding.path", v, <<Store, [Ui EXCEPT !.pathInput = v]>>)

UiTypeTask ==
  /\ socket /\ showOnboarding /\ step = "config"
  /\ \E v \in TaskDrafts :
       UiHandled("Onboarding.task", v, <<Store, [Ui EXCEPT !.taskInput = v]>>)

UiModalSubmit ==
  /\ socket /\ showOnboarding /\ step = "config"
  /\ ~ModalSubmitDisabled(Ui)
  /\ UiHandled("Onboarding.submit", Null, ModalSubmit(Store, Ui))

\* the close button, a click on the overlay, or Escape
UiClose ==
  /\ socket /\ showOnboarding
  /\ UiHandled("Onboarding.close", Null, <<Store, close(Ui)>>)

UiTimer ==
  /\ timers # <<>>
  /\ UiHandled("timer", Head(timers), TimerFire(Store, Ui))

NextUi ==
  \/ UiMount
  \/ UiConnectEvt
  \/ UiDisconnectEvt
  \/ UiTypeInput
  \/ UiApplySuggestion
  \/ UiEscape
  \/ UiInputSubmit
  \/ UiClickNew
  \/ UiSelectMode
  \/ UiBack
  \/ UiTypePath
  \/ UiTypeTask
  \/ UiModalSubmit
  \/ UiClose
  \/ UiTimer

SpecUi == Init /\ [][NextUi]_vars

(***************************************************************************)
(* SpecReset: App.svelte resetSession(), which no element of the markup     *)
(* calls, called among the events and operations that fill the messages.    *)
(***************************************************************************)
ResetSession ==
  /\ nsteps < MaxSteps
  /\ UiHandled("App.resetSession", Null, resetSession(Store, Ui))

NextReset ==
  \/ Connect
  \/ ConnectEvt
  \/ DisconnectEvt
  \/ MessageEvt
  \/ DoneEvt
  \/ SendInput
  \/ ClearMessages
  \/ ResetSession

SpecReset == Init /\ [][NextReset]_vars

(***************************************************************************)
(* SpecLog: a stream of log events, each told from the others by its text.  *)
(* The k-th event carries the text k, in `message` or in `msg`, with or     *)
(* without a level.  SpecLogCap: the same stream with tool events delivered *)
(* among the log events once the log is nearly full.                        *)
(***************************************************************************)
LogFeed(k) ==
  LogData(IF k % 3 = 0 THEN Null ELSE Some(ToString(k)),
          IF k % 3 = 0 THEN Some(ToString(k)) ELSE Some("alt"),
          IF k % 2 = 0 THEN Some("ERROR") ELSE Null)

FeedConnect == ~socket /\ Record("connect()", Null, FALSE, connect(Store))

\* connect() is step 1, so the event handled at step nsteps + 1 is number nsteps
FeedLog ==
  /\ socket
  /\ nsteps <= MaxFeed
  /\ Record("log", LogFeed(nsteps), ThrowsOnLog(LogFeed(nsteps)),
            Deliver("log", Store, LogFeed(nsteps)))

NextLog ==
  \/ FeedConnect
  \/ FeedLog

SpecLog == Init /\ [][NextLog]_vars

CapToolCall ==
  /\ socket
  /\ nsteps <= MaxFeed
  /\ Len(logs) >= LOG_CAP - ToolWindow
  /\ \E d \in ToolCallDatas :
       Record("tool_call", d, ThrowsOnToolCall(d),
            Deliver("tool_call", Store, d))

CapToolResult ==
  /\ socket
  /\ nsteps <= MaxFeed
  /\ Len(logs) >= LOG_CAP - ToolWindow
  /\ \E d \in ToolResultDatas :
       Record("tool_result", d, ThrowsOnToolResult(d),
            Deliver("tool_result", Store, d))

NextLogCap ==
  \/ FeedConnect
  \/ FeedLog
  \/ CapToolCall
  \/ CapToolResult

SpecLogCap == Init /\ [][NextLogCap]_vars

(***************************************************************************)
(* Properties                                                              *)
(***************************************************************************)
\* the observable cells of a store and the events it has emitted
CellsOf(st) ==
  <<st.connected, st.messages, st.logs, st.status, st.pendingConfirm,
    st.pipelineDone, st.activeWorkflow, st.activeProject, st.emitted>>

InboundOps ==
  {"message", "log", "tool_call", "tool_result", "status", "confirm", "done",
   "error"}

\* C1: sendInput, sendConfirm and sendCommand invoked while the connection
\* flag is false change no store cell and emit no outbound event.
C1_DisconnectedCallsAreNoOps ==
  (last.op \in {"sendInput", "sendConfirm", "sendCommand"} /\ ~prev.connected)
    => CellsOf(Store) = CellsOf(prev)

\* C2: in every reachable state the stored log has at most 500 entries.
C2_LogNeverExceeds500 == Len(logs) <= 500

\* the entry the log handler stores for the k-th event of the stream
FeedEntry(k) ==
  [level |-> IF k % 2 = 0 THEN "ERROR" ELSE "INFO", msg |-> ToString(k)]

\* the number of log events handled so far in SpecLog
FeedCount == IF nsteps = 0 THEN 0 ELSE nsteps - 1

\* C3: after n log events on an empty log, the stored log has min(n, 500)
\* entries and they are the last min(n, 500) events received, in arrival order.
C3_LogKeepsLast500 ==
  LET n == FeedCount
      k == IF n < 500 THEN n ELSE 500
  IN /\ Len(logs) = k
     /\ \A i \in 1..k : logs[i] = FeedEntry(n - k + i)

\* a log event handled on a full log, evicting the oldest entry
C3_Witness ==
  /\ last.op = "log"
  /\ FeedCount > 500
  /\ Len(prev.logs) = 500
  /\ Len(logs) = 500
  /\ logs[1] = prev.logs[2]
  /\ logs[500] = FeedEntry(FeedCount)

\* C4: message ids are strictly increasing in order of creation for the whole
\* lifetime of the store: the counter never goes back, the ids in the list are
\* strictly increasing, every message an operation adds has an id greater than
\* every id issued before that operation, and a successful sendInput on an
\* empty (cleared) list leaves exactly one message.
C4_MessageIdsNeverReused ==
  /\ msgId >= prev.msgId
  /\ \A i \in 1..Len(messages) :
       /\ messages[i].id <= msgId
       /\ i > 1 => messages[i - 1].id < messages[i].id
       /\ ~(i <= Len(prev.messages) /\ prev.messages[i] = messages[i])
            => messages[i].id > prev.msgId
  /\ (last.op = "sendInput" /\ prev.socket /\ prev.messages = <<>>)
       => (Len(messages) = 1 /\ messages[1].id > prev.msgId)

\* a sendInput right after a clear that removed earlier messages
C4_Witness ==
  /\ last.op = "sendInput"
  /\ prev.messages = <<>>
  /\ prev.msgId >= 1
  /\ Len(messages) = 1
  /\ messages[1].id = prev.msgId + 1

\* C5: in every reachable state connected = false implies
\* activeWorkflow = null.
C5_DisconnectedHasNoWorkflow == ~connected => activeWorkflow = Null

\* C6: immediately after a disconnect event is handled, activeWorkflow is null
\* and connected is false, whatever activeWorkflow was before.
C6_DisconnectClearsWorkflow ==
  last.op = "disconnect" => (activeWorkflow = Null /\ ~connected)

\* a disconnect handled while a workflow was active on an open connection
C6_Witness ==
  /\ last.op = "disconnect"
  /\ prev.connected
  /\ prev.activeWorkflow # Null
  /\ activeWorkflow = Null

\* C7: a confirm event sets pendingConfirm to exactly the new record, whatever
\* was pending; and sendConfirm called while a confirmation is pending, with
\* either answer, leaves pendingConfirm null.
C7_ConfirmReplacesAndResolves ==
  /\ last.op = "confirm" => pendingConfirm = last.arg
  /\ (last.op = "sendConfirm" /\ prev.pendingConfirm # Null)
       => pendingConfirm = Null

\* a confirm event that arrived while a different confirmation was unresolved
C7_Witness ==
  /\ last.op = "confirm"
  /\ prev.pendingConfirm # Null
  /\ last.arg # Null
  /\ last.arg # prev.pendingConfirm
  /\ pendingConfirm = last.arg

\* C8: no inbound event handler throws: every inbound event that carries a
\* payload object, with any combination of its fields present or absent, is
\* handled without raising.
C8_NoHandlerThrows ==
  (last.op \in InboundOps /\ last.arg # Null) => ~last.threw

\* C9: in the presentation layer sendInput is never invoked while the
\* connection flag is false.
C9_ComponentsSendOnlyWhenConnected ==
  \A i \in 1..Len(last.calls) : last.calls[i]

\* C10: a message event with a non-chat workflow tag sets activeWorkflow to
\* the tag and activeProject to the payload's project (the empty string when
\* the payload has none); with the tag "chat" it sets activeWorkflow to "chat"
\* and leaves activeProject as it was; with no payload or no workflow tag it
\* leaves both as they were.
C10_MessageSetsWorkflowAndProject ==
  last.op = "message" =>
    LET payload == IF last.arg = Null THEN Null ELSE last.arg[1].payload
        tagged == payload # Null /\ TruthyStr(payload[1].workflow)
    IN IF ~tagged
       THEN /\ activeWorkflow = prev.activeWorkflow
            /\ activeProject = prev.activeProject
       ELSE IF payload[1].workflow = Some("chat")
       THEN /\ activeWorkflow = Some("chat")
            /\ activeProject = prev.activeProject
       ELSE /\ activeWorkflow = payload[1].workflow
            /\ activeProject = OrStr(payload[1].project, "")

\* a chat message handled after a build message had set the project
C10_Witness ==
  /\ last.op = "message"
  /\ last.arg # Null
  /\ last.arg[1].payload # Null
  /\ last.arg[1].payload[1].workflow = Some("chat")
  /\ last.arg[1].payload[1].project # Some("projects/x")
  /\ prev.activeWorkflow = Some("build")
  /\ prev.activeProject = "projects/x"
  /\ activeWorkflow = Some("chat")
  /\ activeProject = "projects/x"

\* C11: after a done event is handled the status snapshot is null, whatever
\* it was before, and pipelineDone is the event's record.
C11_DoneClearsStatus ==
  last.op = "done" => (status = Null /\ pipelineDone = last.arg)

\* a done event carrying a record, handled while a status snapshot was shown
C11_Witness ==
  /\ last.op = "done"
  /\ last.arg # Null
  /\ prev.status # Null
  /\ status = Null
  /\ pipelineDone = last.arg

\* the part of a tool log line after the arrow, the tool name and two blanks
Rendering(msg, arrow, tool) ==
  SubSeq(msg, Len(arrow \o Template(tool) \o "  ") + 1, Len(msg))

\* a tool log line starts with the arrow and the tool name
StartsWithTool(msg, arrow, tool) ==
  LET head == arrow \o Template(tool)
  IN Len(msg) >= Len(head) /\ SubSeq(msg, 1, Len(head)) = head

\* C12: every tool_call event that is handled appends exactly one TOOL entry
\* whose text begins with the arrow and the tool name and whose rendering of
\* args is at most 120 characters long, and every tool_result event appends
\* exactly one TOOL entry whose rendering of the result is at most 120
\* characters long.
C12_ToolLinesAreCapped ==
  /\ (last.op = "tool_call" /\ ~last.threw) =>
       /\ Len(logs) = Len(prev.logs) + 1
       /\ SubSeq(logs, 1, Len(prev.logs)) = prev.logs
       /\ logs[Len(logs)].level = "TOOL"
       /\ StartsWithTool(logs[Len(logs)].msg, ARROW_CALL, last.arg[1].tool)
       /\ Len(Rendering(logs[Len(logs)].msg, ARROW_CALL, last.arg[1].tool)) <= 120
  /\ (last.op = "tool_result" /\ ~last.threw) =>
       /\ Len(logs) = Len(prev.logs) + 1
       /\ SubSeq(logs, 1, Len(prev.logs)) = prev.logs
       /\ logs[Len(logs)].level = "TOOL"
       /\ StartsWithTool(logs[Len(logs)].msg, ARROW_RESULT, last.arg[1].tool)
       /\ Len(Rendering(logs[Len(logs)].msg, ARROW_RESULT, last.arg[1].tool)) <= 120

\* C13: connect() is idempotent: at most one connection is ever created, the
\* socket exists exactly when that one connection does, a call on an existing
\* socket changes nothing, and each inbound event is applied once: a connect,
\* disconnect, message or error event adds exactly one message, a log or tool
\* event exactly one log entry.
C13_ConnectIsIdempotent ==
  /\ instances <= 1
  /\ socket <=> instances = 1
  /\ last.op = "connect()" =>
       /\ instances = 1
       /\ prev.socket => (instances = prev.instances /\ CellsOf(Store) = CellsOf(prev))
  /\ (last.op \in {"connect", "disconnect", "message", "error"} /\ ~last.threw)
       => Len(messages) = Len(prev.messages) + 1
  /\ (last.op \in {"log", "tool_call", "tool_result"} /\ ~last.threw)
       => Len(logs) = Len(prev.logs) + 1

\* a second call of connect(), on the socket the first call created
C13_Witness ==
  /\ last.op = "connect()"
  /\ prev.socket
  /\ prev.instances = 1
  /\ instances = 1

\* C14: after clearLogs() the log sequence is empty and pipelineDone is
\* absent.
C14_ClearLogsClearsDone ==
  last.op = "clearLogs" => (logs = <<>> /\ pipelineDone = Null)

\* C14, amended: after clearLogs() the log sequence is empty and pipelineDone
\* is what it was before; pipelineDone is cleared by clearMessages().
C14_ClearLogsKeepsDone ==
  /\ last.op = "clearLogs" => (logs = <<>> /\ pipelineDone = prev.pipelineDone)
  /\ last.op = "clearMessages" => pipelineDone = Null

\* clearLogs() on a store with log entries and a pipelineDone record
C14_Witness ==
  /\ last.op = "clearLogs"
  /\ prev.logs # <<>>
  /\ prev.pipelineDone # Null
  /\ logs = <<>>
  /\ pipelineDone = prev.pipelineDone

\* C15: clearMessages() empties the message sequence and sets pipelineDone to
\* null; it leaves logs, status, pendingConfirm, connected, activeWorkflow,
\* activeProject and the id counter as they were and emits no event.
C15_ClearMessagesFrame ==
  last.op = "clearMessages" =>
    /\ messages = <<>>
    /\ pipelineDone = Null
    /\ logs = prev.logs
    /\ status = prev.status
    /\ pendingConfirm = prev.pendingConfirm
    /\ connected = prev.connected
    /\ activeWorkflow = prev.activeWorkflow
    /\ activeProject = prev.activeProject
    /\ msgId = prev.msgId
    /\ emitted = prev.emitted

\* clearMessages() on a store with messages and a pipelineDone record
C15_Witness ==
  /\ last.op = "clearMessages"
  /\ prev.messages # <<>>
  /\ prev.pipelineDone # Null
  /\ prev.msgId > 0
  /\ messages = <<>>
  /\ pipelineDone = Null
  /\ msgId = prev.msgId

\* the texts of the user-type messages of a message sequence, in order
UserTexts(list) ==
  LET IsUser(m) == m.type = "user"
      users == SelectSeq(list, IsUser)
  IN [i \in 1..Len(users) |-> users[i].text]

\* the texts of the input events emitted since clearMessages() last ran
InputsSinceClear ==
  LET IsInput(e) == e.evt = "agent:input"
      inputs == SelectSeq(SubSeq(emitted, clearMark + 1, Len(emitted)), IsInput)
  IN [i \in 1..Len(inputs) |-> inputs[i].data.text]

\* a is b with some of its elements left out
RECURSIVE IsSubsequence(_, _)
IsSubsequence(a, b) ==
  IF a = <<>> THEN TRUE
  ELSE IF b = <<>> THEN FALSE
  ELSE IF Head(a) = Head(b) THEN IsSubsequence(Tail(a), Tail(b))
  ELSE IsSubsequence(a, Tail(b))

\* sendInput on an open connection appends one user message with the text and
\* then emits one input event with the same text
SendInputEchoes ==
  (last.op = "sendInput" /\ prev.connected) =>
    /\ messages = Append(prev.messages,
                         [id |-> prev.msgId + 1, type |-> "user",
                          text |-> last.arg, payload |-> Null])
    /\ emitted = Append(prev.emitted,
                        [evt |-> "agent:input", data |-> [text |-> last.arg]])

\* C16: each sendInput on an open connection appends exactly one user message
\* carrying the text and emits exactly one input event carrying it, and the
\* user-type messages of the sequence are, in order, exactly the input events
\* emitted since the last clear.
C16_UserMessagesMatchInputs ==
  /\ SendInputEchoes
  /\ UserTexts(messages) = InputsSinceClear

\* C16, amended: each sendInput on an open connection appends exactly one
\* user message carrying the text and emits exactly one input event carrying
\* it, and the input events emitted since the last clear are matched, in order,
\* by user-type messages of the sequence, which may hold further user-type
\* messages that inbound message events appended.
C16_InputsAreEchoedInOrder ==
  /\ SendInputEchoes
  /\ IsSubsequence(InputsSinceClear, UserTexts(messages))

\* a sendInput on an open connection whose sequence also holds a user-type
\* message that came from the backend
C16_Witness ==
  /\ last.op = "sendInput"
  /\ prev.connected
  /\ InputsSinceClear = <<last.arg>>
  /\ Len(UserTexts(messages)) = 2
  /\ messages[Len(messages)].text = last.arg

\* C17: sendCommand(name, extraFields) on an open connection emits exactly
\* one command event whose command identifier is name and which carries every
\* field of extraFields, and changes no store cell.
C17_CommandCarriesNameAndFields ==
  (last.op = "sendCommand" /\ prev.connected) =>
    LET name == last.arg[1]
        extra == last.arg[2]
        sent == emitted[Len(emitted)]
    IN /\ Len(emitted) = Len(prev.emitted) + 1
       /\ SubSeq(emitted, 1, Len(prev.emitted)) = prev.emitted
       /\ sent.evt = "agent:command"
       /\ sent.data.command = name
       /\ extra # Null =>
            \A k \in DOMAIN extra[1] :
              k \in DOMAIN sent.data /\ sent.data[k] = extra[1][k]
       /\ CellsOf([Store EXCEPT !.emitted = prev.emitted]) = CellsOf(prev)

\* C18: sendConfirm(record, accepted) on an open connection emits exactly one
\* confirm_response event whose token is "yes" when accepted is true and "no"
\* otherwise, whatever record is passed and whatever confirmation is pending.
C18_ConfirmTokenFollowsBoolean ==
  (last.op = "sendConfirm" /\ prev.connected) =>
    emitted = Append(prev.emitted,
                     [evt |-> "agent:confirm_response",
                      data |-> [response |-> IF last.arg[2] THEN "yes" ELSE "no"]])

\* a denial sent with a record other than the confirmation that is pending
C18_Witness ==
  /\ last.op = "sendConfirm"
  /\ prev.connected
  /\ prev.pendingConfirm # Null
  /\ last.arg[1] # Null
  /\ last.arg[1] # prev.pendingConfirm
  /\ ~last.arg[2]
  /\ emitted[Len(emitted)].data.response = "no"

\* C19: the connection flag is false at the start, true after a connect
\* event, false after a disconnect event, and changed by no other operation,
\* so that it is true exactly when the latest connect or disconnect event was
\* a connect; and every connect and every disconnect event appends exactly
\* one system-type message.
C19_ConnectedFollowsLinkEvents ==
  /\ nsteps = 0 => ~connected
  /\ last.op = "connect" => connected
  /\ last.op = "disconnect" => ~connected
  /\ last.op \notin {"connect", "disconnect"} => connected = prev.connected
  /\ last.op \in {"connect", "disconnect"} =>
       /\ Len(messages) = Len(prev.messages) + 1
       /\ SubSeq(messages, 1, Len(prev.messages)) = prev.messages
       /\ messages[Len(messages)].type = "system"

\* a connect event after a disconnect: the flag is true again and a second
\* system message announces it
C19_Witness ==
  /\ last.op = "connect"
  /\ ~prev.connected
  /\ prev.messages # <<>>
  /\ prev.messages[Len(prev.messages)].text = TXT_DISCONNECTED
  /\ connected
  /\ messages[Len(messages)] =
       [id |-> prev.msgId + 1, type |-> "system", text |-> TXT_CONNECTED,
        payload |-> Null]

\* C20: the message sequence is append-only between clears: an operation other
\* than clearMessages() leaves it as it was or adds exactly one entry at its
\* end.
C20_MessagesAppendOnly ==
  last.op # "clearMessages" =>
    \/ messages = prev.messages
    \/ /\ Len(messages) = Len(prev.messages) + 1
       /\ SubSeq(messages, 1, Len(prev.messages)) = prev.messages

\* an error event that adds its message after an earlier error message
C20_Witness ==
  /\ last.op = "error"
  /\ ~last.threw
  /\ prev.messages # <<>>
  /\ prev.messages[Len(prev.messages)].type = "error"
  /\ Len(messages) = Len(prev.messages) + 1
  /\ SubSeq(messages, 1, Len(prev.messages)) = prev.messages

C22_MessageSetsDoneUnlessChat ==
  (last.op = "message" /\ last.arg # Null) =>
    LET d == last.arg[1]
        terminal == d.payload # Null /\ d.payload[1].status = Some("completed")
        chat == d.payload # Null /\ d.payload[1].workflow = Some("chat")
    IN /\ (terminal /\ ~chat) => pipelineDone = Some([status |-> "completed"])
       /\ (~terminal \/ chat) => pipelineDone = prev.pipelineDone
       /\ messages =
            Append(prev.messages,
                   [id |-> prev.msgId + 1,
                    type |-> IF d.type \in {Null, Some("")} THEN "assistant"
                             ELSE d.type[1],
                    text |-> IF d.text = Null THEN "" ELSE d.text[1],
                    payload |-> d.payload])

\* a completed chat message handled after a done event: the done record stays
C22_Witness ==
  /\ last.op = "message"
  /\ last.arg = MessageData(Some("hi"), Some("result"),
                            Payload(Some("chat"), Null, Some("completed")))
  /\ prev.pipelineDone = Some([status |-> "failed", reason |-> "tests"])
  /\ pipelineDone = prev.pipelineDone
  /\ Len(messages) = Len(prev.messages) + 1
  /\ messages[Len(messages)].type = "result"

\* C23: events are applied in arrival order with no reconciliation: a status
\* event that carries a data record sets a (non-null) status snapshot and
\* leaves pipelineDone as it was, also when a done event was handled before
\* it, and a done event handled after it clears the status again.
C23_EventsAppliedInArrivalOrder ==
  /\ (last.op = "status" /\ last.arg # Null) =>
       /\ status # Null
       /\ pipelineDone = prev.pipelineDone
  /\ (last.op = "done" /\ prev.status # Null /\ prev.pipelineDone # Null) =>
       status = Null

\* done, then status, then done: the state between the two done events had
\* both the done record and a status snapshot, and the second done event
\* cleared the snapshot
C23_Witness ==
  /\ last.op = "done"
  /\ prev.pipelineDone = Some([status |-> "failed", reason |-> "tests"])
  /\ prev.status # Null
  /\ prev.status[1].phase = Some("plan")
  /\ status = Null
  /\ pipelineDone = last.arg

\* C24: after an input event of the textarea the suggestions are exactly the
\* commands of {project, resume, analyze, reset} of which the trimmed,
\* lower-cased draft is a prefix without being the command itself, each once;
\* there is none when that draft is empty or starts with "/".
C24_SuggestionsArePrefixMatches ==
  last.op = "Input.type" =>
    LET val == ToLowerCase(Trim(inputText))
        shown == {suggestions[i] : i \in 1..Len(suggestions)}
    IN /\ inputText = last.arg
       /\ IF val = "" \/ SubSeq(val, 1, 1) = "/" THEN suggestions = <<>>
          ELSE /\ Len(suggestions) = Cardinality(shown)
               /\ shown = {c \in {"project", "resume", "analyze", "reset"} :
                             /\ Len(val) <= Len(c)
                             /\ SubSeq(c, 1, Len(val)) = val
                             /\ c # val}

\* the draft " RE " typed over a draft that had no suggestion: resume and
\* reset are suggested
C24_Witness ==
  /\ last.op = "Input.type"
  /\ last.arg = " RE "
  /\ prev.connected
  /\ suggestions = <<"resume", "reset">>

\* C25: a disconnect event leaves pendingConfirm, status, pipelineDone,
\* activeProject and the logs as they were (it changes connected,
\* activeWorkflow and the messages only), and pendingConfirm is changed by no
\* operation other than a confirm event and sendConfirm, so that a
\* confirmation pending before a disconnect is still pending after it and
\* after a later reconnect.
C25_DisconnectKeepsPendingConfirm ==
  /\ last.op = "disconnect" =>
       /\ pendingConfirm = prev.pendingConfirm
       /\ status = prev.status
       /\ pipelineDone = prev.pipelineDone
       /\ activeProject = prev.activeProject
       /\ logs = prev.logs
       /\ emitted = prev.emitted
  /\ last.op \notin {"confirm", "sendConfirm"} =>
       pendingConfirm = prev.pendingConfirm

\* a disconnect event handled while a confirmation was pending and a
\* workflow was active: the workflow is gone, the confirmation is still there
C25_Witness ==
  /\ last.op = "disconnect"
  /\ prev.pendingConfirm = Some([type |-> "review", message |-> "approve the plan?"])
  /\ prev.activeWorkflow # Null
  /\ activeWorkflow = Null
  /\ ~connected
  /\ pendingConfirm = prev.pendingConfirm

\* C26: resetSession() sends the input "reset" and then clears the messages:
\* after it has run on an existing socket, exactly one input event with the
\* text "reset" has been emitted, the messages are empty (the echo of "reset"
\* is not kept), pipelineDone is null, the id counter has advanced by one, and
\* the onboarding modal is shown.
C26_ResetSendsThenClears ==
  (last.op = "App.resetSession" /\ prev.socket) =>
    /\ emitted = Append(prev.emitted,
                        [evt |-> "agent:input", data |-> [text |-> "reset"]])
    /\ messages = <<>>
    /\ pipelineDone = Null
    /\ msgId = prev.msgId + 1
    /\ showOnboarding

\* resetSession() called on a connected session that showed messages and a
\* finished pipeline
C26_Witness ==
  /\ last.op = "App.resetSession"
  /\ prev.socket /\ prev.connected
  /\ Len(prev.messages) >= 2
  /\ prev.pipelineDone # Null
  /\ messages = <<>>
  /\ pipelineDone = Null
  /\ msgId = prev.msgId + 1
  /\ emitted # <<>>
  /\ emitted[Len(emitted)].data = [text |-> "reset"]

\* an input event that opens a project
IsProjectInput(e) ==
  /\ e.evt = "agent:input"
  /\ Len(e.data.text) >= 8
  /\ SubSeq(e.data.text, 1, 8) = "project "

\* C27: submit() of the onboarding modal with a blank path sends nothing and
\* leaves the modal as it is; with a non-blank path it emits the input
\* "project <path>" and closes the modal (step "mode", no selected mode); and
\* the follow-up it schedules sends exactly one input, after a project input,
\* whose text is the task text that was submitted or the default request of
\* the analyze or research mode, whatever was handled in between.
C27_FollowUpSendsSubmittedTask ==
  /\ Trim(pathInput) = "" => ModalSubmit(Store, Ui) = <<Store, Ui>>
  /\ last.op = "Onboarding.submit" =>
       /\ emitted # <<>>
       /\ SubSeq(emitted, 1, Len(emitted) - 1) = prev.emitted
       /\ IsProjectInput(emitted[Len(emitted)])
       /\ ~showOnboarding /\ step = "mode" /\ selectedMode = ""
  /\ last.op = "timer" =>
       /\ emitted = Append(prev.emitted,
                           [evt |-> "agent:input", data |-> [text |-> last.arg.text]])
       /\ \E i \in 1..Len(prev.emitted) : IsProjectInput(prev.emitted[i])


\* C28: a message event whose payload has a workflow tag other than "chat"
\* and no project sets activeProject to the empty string, whatever project
\* was shown; one with such a tag and a project sets it to that project; no
\* other operation changes activeProject, which is empty at the start: so
\* activeProject is non-empty only if the latest message with a non-chat
\* workflow tag carried a project.
C28_TaggedMessageWithoutProjectResets ==
  LET payload == IF last.op = "message" /\ last.arg # Null
                 THEN last.arg[1].payload ELSE Null
      tagged == /\ payload # Null
                /\ payload[1].workflow \notin {Null, Some(""), Some("chat")}
  IN /\ nsteps = 0 => activeProject = ""
     /\ ~tagged => activeProject = prev.activeProject
     /\ (tagged /\ payload[1].project = Null) => activeProject = ""
     /\ (tagged /\ payload[1].project # Null) =>
          activeProject = payload[1].project[1]

\* a build message without a project, handled while a project was shown
C28_Witness ==
  /\ last.op = "message"
  /\ last.arg # Null
  /\ last.arg[1].payload # Null
  /\ last.arg[1].payload[1].workflow = Some("build")
  /\ last.arg[1].payload[1].project = Null
  /\ prev.activeProject = "projects/x"
  /\ activeProject = ""

====
